---- MODULE Spec2Model ----
(***************************************************************************)
(* The Twilio media-stream <-> OpenAI Realtime bridge of app/main.py:      *)
(* the coroutine media_stream_endpoint (one telephony WebSocket, served on *)
(* the asyncio event loop) and the OAIRealtime clients it creates (each    *)
(* with a WebSocketApp.run_forever thread of its own).                     *)
(*                                                                         *)
(* Time is in milliseconds.  Audio is modelled by its byte length.         *)
(***************************************************************************)
EXTENDS Integers, Sequences, FiniteSets, TLC

\* ------------------------------------------------------------------ bounds
MaxFrames == 3      \* telephony frames received on the socket
MaxStarts == 2      \* `start` frames among them (OAIRealtime objects built)
MaxTicks == 1       \* clock advances
MaxMsgs == 1        \* inbound speech-service events
MaxPosts == 1       \* POST /v2/process-call requests
MaxDeltas == 2      \* response.audio.delta events among the speech events
MaxCalls == 2       \* calls the process serves at once
MaxSays == 2        \* transcript events of one call
MaxBytes == 4       \* length of the audio buffers made of ByteVals

\* ------------------------------------------------------- program constants
MIN_BUFFER_SIZE == 4800
\* audioop's G.711 constants, behind lin2ulaw and ulaw2lin.
BIAS == 132
CLIP == 8159
PAUSE_MS == 700
CONNECT_TIMEOUT_MS == 5000

\* Inputs: mu-law payload sizes of a media frame, clock steps, speech events.
FrameSizes == {160, 800}
TickSteps == {699, 700, 701}
SpeechEvents == {"session.created",
                 "input_audio_buffer.speech_started",
                 "input_audio_buffer.speech_stopped",
                 "response.done"}

Clients == 1..MaxStarts

VARIABLES
    pc,                 \* where media_stream_endpoint stands
    oai,                \* the local `oai`: 0 is None, else the client's index
    nclients,           \* OAIRealtime objects constructed so far
    now,                \* time.time()
    last_media_ts,      \* the local last_media_ts
    wait_deadline,      \* when _connected.wait(timeout=5) gives up
    chunk,              \* len(chunk) inside send_pcm16_24k
    tmp,                \* audio_buffer_size as loaded by `+=`, before its store
    tel,                \* the telephony socket: "connected" | "disconnected"
    cause,              \* how the receive loop was left
    last_frame,         \* kind of the frame receive_text() returned last
    ws,                 \* ws[c]: self.ws is set
    sock,               \* sock[c]: the speech-service connection of client c
    thr,                \* thr[c]: where client c's run_forever thread stands
    connected,          \* connected[c]: the _connected Event
    audio_buffer_size,  \* audio_buffer_size[c]
    sent,               \* sent[c]: events written to client c's socket, in order
    close_calls,        \* close_calls[c]: ws.close() calls made by close()
    commit_calls,       \* commit_and_respond() invocations
    forced_calls,       \* those made by the auto-commit check
    process_calls,      \* process_completed_call() invocations
    frames, ticks, msgs,\* inputs consumed so far
    app_state,          \* websocket.application_state
    loop_q,             \* send_text coroutines handed to event_loop, not yet run
    out,                \* media events written to the telephony socket
    deltas,             \* response.audio.delta events received so far
    appended,           \* appended[c]: the frame each append event carries
    client_user_id,     \* client_user_id[c]: self.user_id of client c
    save_calls,         \* save_thread_history() calls made by _on_message
    THREAD_HISTORY,     \* THREAD_HISTORY[t]: the deque under key t, 0 if none
    THREAD_LOADED,      \* THREAD_LOADED[t]
    deques,             \* deques[o]: the content of deque object o
    nobjs,              \* deque objects made so far
    store,              \* store[t]: the messages saved under thread_history:t
    call_pc,            \* call_pc[k]: where call k and its speech thread stand
    user_id,            \* user_id[k]: customParameters.get("user_id")
    thread_id,          \* thread_id[k]
    ref,                \* ref[k]: the deque the thread of call k holds
    it_len,             \* it_len[k]: the deque's length when iteration began
    messages,           \* messages[k]: the list save_thread_history builds
    said,               \* said[k]: transcript lines call k has appended
    searches,           \* searches[t]: mem_store.search calls made to load t
    codec_in,           \* a PCM16 buffer, as a sequence of bytes
    codec_out,          \* the buffer after one round trip
    codec_out2,         \* ... and after a second one
    codec_pc,           \* which conversions have been applied
    setup_pc,           \* where the start branch stands
    setup_user,         \* customParameters.get("user_id") of the start frame
    is_callback,        \* customParameters.get("is_callback") == "True"
    mem_store,          \* the local mem_store
    memories,           \* len(memories)
    instructions,       \* the local instructions, by its sections
    agent_name,         \* the local agent_name
    openai_voice,       \* the local openai_voice
    failed,             \* the collaborators that have failed in this setup
    setup_client,       \* the OAIRealtime the branch constructs
    setup_connects,     \* connect() calls made by the branch
    gen_pc,             \* where the generator chat_realtime_stream stands
    ws_pc,              \* where the WebSocketApp thread stands
    token_queue,        \* token_queue
    response_complete,  \* response_complete
    error_occurred,     \* error_occurred of chat_realtime_stream
    response_text,      \* response_text, by what strip() leaves of it
    delta,              \* the delta on_message holds between `+=` and put()
    yielded,            \* chunks the generator has yielded, in order
    stream_now,         \* time.time() - start_time, in half seconds
    stream_events       \* events the thread has delivered

bridgeVars == <<pc, oai, nclients, now, last_media_ts, wait_deadline, chunk, tmp, tel,
          cause, last_frame, ws, sock, thr, connected, audio_buffer_size, sent,
          close_calls, commit_calls, forced_calls, process_calls,
          frames, ticks, msgs, app_state, loop_q, out, deltas, appended,
          client_user_id, save_calls>>

loopVars == <<pc, oai, nclients, last_media_ts, wait_deadline, chunk, tmp, tel,
              cause, last_frame, frames, commit_calls, forced_calls>>
clientVars == <<ws, sock, thr, connected, audio_buffer_size, sent, close_calls>>
outVars == <<app_state, loop_q, out, deltas, appended>>
evVars == <<client_user_id, save_calls>>
histVars == <<THREAD_HISTORY, THREAD_LOADED, deques, nobjs, store, call_pc,
              user_id, thread_id, ref, it_len, messages, said, searches>>
codecVars == <<codec_in, codec_out, codec_out2, codec_pc>>
setupVars == <<setup_pc, setup_user, is_callback, mem_store, memories, instructions,
               agent_name, openai_voice, failed, setup_client, setup_connects>>
streamVars == <<gen_pc, ws_pc, token_queue, response_complete, error_occurred,
                response_text, delta, yielded, stream_now, stream_events>>
sideVars == <<histVars, codecVars, setupVars, streamVars>>
vars == <<bridgeVars, sideVars>>

\* ------------------------------------------------------------- transcoding
\* audioop.ulaw2lin(b, 2): one mu-law byte becomes one 16-bit sample.
pcmu8k_to_pcm16_8k_len(n) == n * 2

\* np.repeat(arr, 3): every sample three times.
upsample_8k_to_24k_len(m) == m * 3

\* The same functions on the bytes themselves.
\* np.frombuffer(b, dtype=np.int16): little-endian signed 16-bit samples.
FromBuffer(b) ==
    [i \in 1..(Len(b) \div 2) |->
        IF b[2 * i - 1] + 256 * b[2 * i] >= 32768
        THEN b[2 * i - 1] + 256 * b[2 * i] - 65536
        ELSE b[2 * i - 1] + 256 * b[2 * i]]

\* arr.tobytes()
ToBytes(arr) ==
    [i \in 1..(2 * Len(arr)) |->
        IF i % 2 = 1
        THEN (arr[(i + 1) \div 2] % 65536) % 256
        ELSE (arr[(i + 1) \div 2] % 65536) \div 256]

\* np.repeat(arr, 3)
Repeat(arr) == [i \in 1..(3 * Len(arr)) |-> arr[(i + 2) \div 3]]

\* arr[::3], with a variant of stride 2.
DecimateByTwo(arr) == [i \in 1..((Len(arr) + 1) \div 2) |-> arr[2 * i - 1]]

Decimate(arr) == [i \in 1..((Len(arr) + 2) \div 3) |-> arr[3 * i - 2]]

upsample_8k_to_24k(pcm16_8k) == ToBytes(Repeat(FromBuffer(pcm16_8k)))

downsample_24k_to_8k(pcm16_24k) == ToBytes(Decimate(FromBuffer(pcm16_24k)))

\* audioop.lin2ulaw(b, 2) encodes each sample, reduced to 14 bits, with
\* st_14linear2ulaw: sign, clipped and biased magnitude, segment, mantissa.
seg_uend == <<63, 127, 255, 511, 1023, 2047, 4095, 8191>>

search(val) ==
    IF \E i \in 1..Len(seg_uend) : val <= seg_uend[i]
    THEN (CHOOSE i \in 1..Len(seg_uend) :
             /\ val <= seg_uend[i]
             /\ \A j \in 1..(i - 1) : val > seg_uend[j]) - 1
    ELSE Len(seg_uend)

st_14linear2ulaw(pcm_val) ==
    LET mask == IF pcm_val < 0 THEN 127 ELSE 255
        mag == IF pcm_val < 0 THEN -pcm_val ELSE pcm_val
        val == (IF mag > CLIP THEN CLIP ELSE mag) + (BIAS \div 4)
        seg == search(val)
    IN  IF seg >= 8
        THEN mask - 127
        ELSE mask - (seg * 16 + ((val \div (2 ^ (seg + 1))) % 16))

\* audioop.ulaw2lin(b, 2) looks each byte up in _st_ulaw2linear16; with a
\* variant that is off by one step of the finest segment.
st_ulaw2linear16_off(u) ==
    LET t == (((255 - u) % 16) * 8 + BIAS) * (2 ^ (((255 - u) \div 16) % 8))
    IN  IF 255 - u >= 128 THEN BIAS - t + 4 ELSE t - BIAS + 4

st_ulaw2linear16(u) ==
    LET t == (((255 - u) % 16) * 8 + BIAS) * (2 ^ (((255 - u) \div 16) % 8))
    IN  IF 255 - u >= 128 THEN BIAS - t ELSE t - BIAS

pcm16_8k_to_pcmu8k(pcm16_8k) ==
    [i \in 1..(Len(pcm16_8k) \div 2) |->
        st_14linear2ulaw(FromBuffer(pcm16_8k)[i] \div 4)]

pcmu8k_to_pcm16_8k(b) ==
    ToBytes([i \in 1..Len(b) |-> st_ulaw2linear16(b[i])])

\* Buffers to convert: every buffer of one sample, and the buffers of up to
\* MaxBytes bytes over a few byte values (odd lengths among them).
ByteVals == {0, 1, 128, 255}
Buffers ==
    [1..2 -> 0..255] \cup UNION {[1..n -> ByteVals] : n \in 0..MaxBytes}

\* ----------------------------------------------------------- session state
\* The code keeps no state field; the state of the call is where the
\* endpoint stands.
StateOf(p, o) ==
    CASE p = "done" -> "CLOSED"
      [] p = "finally" -> "CLOSING"
      [] p = "connect_wait" -> "CONNECTING"
      [] p \notin {"done", "finally", "connect_wait"} /\ o = 0 -> "IDLE"
      [] OTHER -> "ACTIVE"

State == StateOf(pc, oai)

Live(c) == sock[c] \in {"connecting", "open"}

\* ------------------------------------------------------ optional values
None == <<>>

\* Python's truth value of an optional string.
Truthy(x) == x # None /\ x[1] # ""

\* ---------------------------------------------------------------- thread_id
\* customParameters of the start frames.
UserIds == {None, <<"">>, <<"42">>, <<"7">>}

\* `f"user_{user_id}" if user_id else None`, with a variant that tests for
\* None alone.
ThreadIdIfPresent(u) == IF u # None THEN <<"user_" \o u[1]>> ELSE None

ThreadId(u) == IF Truthy(u) THEN <<"user_" \o u[1]>> ELSE None

Calls == 1..MaxCalls
Keys == {ThreadId(u)[1] : u \in {v \in UserIds : ThreadId(v) # None}}
Objs == 1..(Cardinality(Keys) + MaxCalls)

\* -------------------------------------------------------------------- init
\* No call has started and nothing is cached or stored.
HistIdle ==
    /\ THREAD_HISTORY = [t \in Keys |-> 0]
    /\ THREAD_LOADED = [t \in Keys |-> FALSE]
    /\ deques = [o \in Objs |-> <<>>]
    /\ nobjs = 0
    /\ store = [t \in Keys |-> <<>>]
    /\ call_pc = [k \in Calls |-> "idle"]
    /\ user_id = [k \in Calls |-> None]
    /\ thread_id = [k \in Calls |-> None]
    /\ ref = [k \in Calls |-> 0]
    /\ it_len = [k \in Calls |-> 0]
    /\ messages = [k \in Calls |-> <<>>]
    /\ said = [k \in Calls |-> 0]
    /\ searches = [t \in Keys |-> 0]

\* The endpoint has accepted the telephony socket; `oai` apart.
Accepted ==
    /\ pc = "recv"
    /\ now = 0
    /\ last_media_ts = 0
    /\ wait_deadline = 0
    /\ chunk = 0
    /\ tmp = 0
    /\ tel = "connected"
    /\ cause = "none"
    /\ last_frame = "none"
    /\ ws = [c \in Clients |-> FALSE]
    /\ sock = [c \in Clients |-> "none"]
    /\ thr = [c \in Clients |-> "none"]
    /\ connected = [c \in Clients |-> FALSE]
    /\ audio_buffer_size = [c \in Clients |-> 0]
    /\ sent = [c \in Clients |-> <<>>]
    /\ close_calls = [c \in Clients |-> 0]
    /\ commit_calls = 0
    /\ forced_calls = 0
    /\ process_calls = 0
    /\ frames = 0
    /\ ticks = 0
    /\ msgs = 0
    /\ app_state = "connected"
    /\ loop_q = <<>>
    /\ out = <<>>
    /\ deltas = 0
    /\ appended = [c \in Clients |-> <<>>]
    /\ save_calls = 0

\* ... and `oai = None`.
BridgeInit ==
    /\ Accepted
    /\ oai = 0
    /\ nclients = 0
    /\ client_user_id = [c \in Clients |-> None]

\* No buffer is being converted.
CodecIdle ==
    /\ codec_in = <<>>
    /\ codec_out = <<>>
    /\ codec_out2 = <<>>
    /\ codec_pc = "idle"

\* No start frame is being handled.
SetupIdle ==
    /\ setup_pc = "idle"
    /\ setup_user = None
    /\ is_callback = FALSE
    /\ mem_store = "unset"
    /\ memories = 0
    /\ instructions = None
    /\ agent_name = None
    /\ openai_voice = None
    /\ failed = {}
    /\ setup_client = None
    /\ setup_connects = 0

\* chat_realtime_stream has not been called.
StreamIdle ==
    /\ gen_pc = "idle"
    /\ ws_pc = "idle"
    /\ token_queue = <<>>
    /\ response_complete = FALSE
    /\ error_occurred = FALSE
    /\ response_text = ""
    /\ delta = None
    /\ yielded = <<>>
    /\ stream_now = 0
    /\ stream_events = 0

Init ==
    /\ BridgeInit
    /\ HistIdle
    /\ CodecIdle
    /\ SetupIdle
    /\ StreamIdle

\* --------------------------------------------------------- the environment
\* The clock advances while the endpoint is blocked, in receive_text() or in
\* _connected.wait(timeout=5); there it cannot pass the deadline, at which
\* the wait returns.
Tick ==
    \E d \in TickSteps :
        /\ ticks < MaxTicks
        /\ pc \in {"recv", "connect_wait"}
        /\ pc = "connect_wait" => now + d <= wait_deadline
        /\ now' = now + d
        /\ ticks' = ticks + 1
        /\ UNCHANGED <<loopVars, clientVars, process_calls, msgs>>
        /\ UNCHANGED <<outVars, evVars, sideVars>>

\* An exception leaves the while loop for `except Exception` and `finally`.
Raise ==
    /\ pc' = "finally"
    /\ cause' = "error"

\* websocket.receive_text() returned a frame of kind k.
Received(k) ==
    /\ pc = "recv"
    /\ tel = "connected"
    /\ frames < MaxFrames
    /\ frames' = frames + 1
    /\ last_frame' = k

\* ------------------------------------------------------------- OAIRealtime
\* `if self.audio_buffer_size >= MIN_BUFFER_SIZE`, with a strict variant.
BufferReadyStrict(n) == n > MIN_BUFFER_SIZE

BufferReady(n) == n >= MIN_BUFFER_SIZE

\* A commit_and_respond() that is put off: the caller goes on without it.
CommitAndRespondDeferred(c, back, resp) ==
    /\ pc' = back
    /\ UNCHANGED <<cause, sent, commit_calls>>

\* commit_and_respond() up to and including the commit event; `back` is
\* where the caller continues after a call that returned at once, `resp`
\* where the call stands between its two sends.
CommitAndRespond(c, back, resp) ==
    /\ commit_calls' = commit_calls + 1
    /\ IF ~ws[c] THEN
          /\ pc' = back
          /\ UNCHANGED <<cause, sent>>
       ELSE IF BufferReady(audio_buffer_size[c]) THEN
          IF sock[c] = "open" THEN
             /\ sent' = [sent EXCEPT ![c] = Append(@, "input_audio_buffer.commit")]
             /\ pc' = resp
             /\ UNCHANGED cause
          ELSE
             /\ Raise
             /\ UNCHANGED sent
       ELSE
          /\ pc' = back
          /\ UNCHANGED <<cause, sent>>

\* The rest of commit_and_respond(): response.create and the reset.
CommitRespond(c, back) ==
    IF sock[c] = "open" THEN
       /\ sent' = [sent EXCEPT ![c] = Append(@, "response.create")]
       /\ audio_buffer_size' = [audio_buffer_size EXCEPT ![c] = 0]
       /\ pc' = back
       /\ UNCHANGED cause
    ELSE
       /\ Raise
       /\ UNCHANGED <<sent, audio_buffer_size>>

\* `(time.time() - last_media_ts) > 0.7`, with a non-strict variant.
PauseExceededInclusive(gap) == gap >= PAUSE_MS

PauseExceeded(gap) == gap > PAUSE_MS

\* ---------------------------------------------------- media_stream_endpoint
\* `start`: a new OAIRealtime replaces `oai`, connect() builds the
\* WebSocketApp, starts its thread and waits for _connected.
RecvStart ==
    /\ Received("start")
    /\ nclients < MaxStarts
    /\ nclients' = nclients + 1
    /\ oai' = nclients + 1
    /\ ws' = [ws EXCEPT ![nclients + 1] = TRUE]
    /\ sock' = [sock EXCEPT ![nclients + 1] = "connecting"]
    /\ thr' = [thr EXCEPT ![nclients + 1] = "connecting"]
    /\ wait_deadline' = now + CONNECT_TIMEOUT_MS
    /\ pc' = "connect_wait"
    /\ UNCHANGED <<now, last_media_ts, chunk, tmp, tel, cause, connected,
                   audio_buffer_size, sent, close_calls, commit_calls,
                   forced_calls, process_calls, ticks, msgs>>
    /\ UNCHANGED <<outVars, evVars, sideVars>>

\* _connected.wait(timeout=5) returns because the event is set.
ConnectReady ==
    /\ pc = "connect_wait"
    /\ connected[oai]
    /\ pc' = "check"
    /\ wait_deadline' = 0
    /\ UNCHANGED <<oai, nclients, now, last_media_ts, chunk, tmp, tel, cause,
                   last_frame, clientVars, commit_calls, forced_calls,
                   process_calls, frames, ticks, msgs>>
    /\ UNCHANGED <<outVars, evVars, sideVars>>

\* ... or because five seconds have passed.
ConnectTimeout ==
    /\ pc = "connect_wait"
    /\ ~connected[oai]
    /\ now' = wait_deadline
    /\ pc' = "check"
    /\ wait_deadline' = 0
    /\ UNCHANGED <<oai, nclients, last_media_ts, chunk, tmp, tel, cause,
                   last_frame, clientVars, commit_calls, forced_calls,
                   process_calls, frames, ticks, msgs>>
    /\ UNCHANGED <<outVars, evVars, sideVars>>

\* A media branch whose send_pcm16_24k() does not test self.ws: a client
\* without a socket cannot send, and the call raises.
RecvMediaUnguarded ==
    \E n \in FrameSizes :
        /\ Received("media")
        /\ IF oai # 0 THEN
              IF sock[oai] = "open" THEN
                 /\ sent' = [sent EXCEPT ![oai] = Append(@, "input_audio_buffer.append")]
                 /\ appended' = [appended EXCEPT ![oai] = Append(@, frames + 1)]
                 /\ chunk' = upsample_8k_to_24k_len(pcmu8k_to_pcm16_8k_len(n))
                 /\ tmp' = audio_buffer_size[oai]
                 /\ pc' = "send_write"
                 /\ UNCHANGED <<cause, last_media_ts>>
              ELSE
                 /\ Raise
                 /\ UNCHANGED <<sent, appended, chunk, tmp, last_media_ts>>
           ELSE
              /\ last_media_ts' = now
              /\ pc' = "check"
              /\ UNCHANGED <<sent, appended, chunk, tmp, cause>>
        /\ UNCHANGED <<oai, nclients, now, wait_deadline, tel, ws, sock, thr,
                       connected, audio_buffer_size, close_calls, commit_calls,
                       forced_calls, process_calls, ticks, msgs>>
        /\ UNCHANGED <<app_state, loop_q, out, deltas, evVars, sideVars>>

\* `media`: decode, transcode, send_pcm16_24k() up to the load of
\* audio_buffer_size by `+=`.
RecvMedia ==
    \E n \in FrameSizes :
        /\ Received("media")
        /\ IF oai # 0 /\ ws[oai] THEN
              IF sock[oai] = "open" THEN
                 /\ sent' = [sent EXCEPT ![oai] = Append(@, "input_audio_buffer.append")]
                 /\ appended' = [appended EXCEPT ![oai] = Append(@, frames + 1)]
                 /\ chunk' = upsample_8k_to_24k_len(pcmu8k_to_pcm16_8k_len(n))
                 /\ tmp' = audio_buffer_size[oai]
                 /\ pc' = "send_write"
                 /\ UNCHANGED <<cause, last_media_ts>>
              ELSE
                 /\ Raise
                 /\ UNCHANGED <<sent, appended, chunk, tmp, last_media_ts>>
           ELSE
              /\ last_media_ts' = now
              /\ pc' = "check"
              /\ UNCHANGED <<sent, appended, chunk, tmp, cause>>
        /\ UNCHANGED <<oai, nclients, now, wait_deadline, tel, ws, sock, thr,
                       connected, audio_buffer_size, close_calls, commit_calls,
                       forced_calls, process_calls, ticks, msgs>>
        /\ UNCHANGED <<app_state, loop_q, out, deltas, evVars, sideVars>>

\* The store of `self.audio_buffer_size += len(chunk)`, then last_media_ts.
SendWrite ==
    /\ pc = "send_write"
    /\ audio_buffer_size' = [audio_buffer_size EXCEPT ![oai] = tmp + chunk]
    /\ last_media_ts' = now
    /\ chunk' = 0
    /\ tmp' = 0
    /\ pc' = "check"
    /\ UNCHANGED <<oai, nclients, now, wait_deadline, tel, cause, last_frame,
                   ws, sock, thr, connected, sent, close_calls, commit_calls,
                   forced_calls, process_calls, frames, ticks, msgs>>
    /\ UNCHANGED <<outVars, evVars, sideVars>>

\* `mark`: commit_and_respond() if there is a client.
RecvMark ==
    /\ Received("mark")
    /\ IF oai # 0 THEN
          CommitAndRespond(oai, "check", "mark_resp")
       ELSE
          /\ pc' = "check"
          /\ UNCHANGED <<cause, sent, commit_calls>>
    /\ UNCHANGED <<oai, nclients, now, last_media_ts, wait_deadline, chunk, tmp,
                   tel, ws, sock, thr, connected, audio_buffer_size,
                   close_calls, forced_calls, process_calls, ticks, msgs>>
    /\ UNCHANGED <<outVars, evVars, sideVars>>

MarkRespond ==
    /\ pc = "mark_resp"
    /\ CommitRespond(oai, "check")
    /\ UNCHANGED <<oai, nclients, now, last_media_ts, wait_deadline, chunk, tmp,
                   tel, last_frame, ws, sock, thr, connected, close_calls,
                   commit_calls, forced_calls, process_calls, frames, ticks,
                   msgs>>
    /\ UNCHANGED <<outVars, evVars, sideVars>>

\* A stop branch that falls through to the auto-commit check, as the other
\* branches do.
RecvStopThenCheck ==
    /\ Received("stop")
    /\ pc' = "check"
    /\ cause' = "stop"
    /\ UNCHANGED <<oai, nclients, now, last_media_ts, wait_deadline, chunk, tmp,
                   tel, clientVars, commit_calls, forced_calls, process_calls,
                   ticks, msgs>>
    /\ UNCHANGED <<outVars, evVars, sideVars>>

\* `stop`: break.
RecvStop ==
    /\ Received("stop")
    /\ pc' = "finally"
    /\ cause' = "stop"
    /\ UNCHANGED <<oai, nclients, now, last_media_ts, wait_deadline, chunk, tmp,
                   tel, clientVars, commit_calls, forced_calls, process_calls,
                   ticks, msgs>>
    /\ UNCHANGED <<outVars, evVars, sideVars>>

\* A frame that is not JSON (json.loads raises), or a media frame whose
\* payload base64.b64decode rejects.
RecvBad ==
    \E k \in {"malformed", "bad_payload"} :
        /\ Received(k)
        /\ Raise
        /\ UNCHANGED <<oai, nclients, now, last_media_ts, wait_deadline, chunk,
                       tmp, tel, clientVars, commit_calls, forced_calls,
                       process_calls, ticks, msgs>>
        /\ UNCHANGED <<outVars, evVars, sideVars>>

\* An event type no branch names: the frame falls through to the check.
RecvUnknown ==
    /\ Received("unknown")
    /\ pc' = "check"
    /\ UNCHANGED <<oai, nclients, now, last_media_ts, wait_deadline, chunk, tmp,
                   tel, cause, clientVars, commit_calls, forced_calls,
                   process_calls, ticks, msgs>>
    /\ UNCHANGED <<outVars, evVars, sideVars>>

\* The caller's side went away: receive_text() raises WebSocketDisconnect.
RecvDisconnect ==
    /\ pc = "recv"
    /\ tel = "connected"
    /\ tel' = "disconnected"
    /\ pc' = "finally"
    /\ cause' = "disconnect"
    /\ UNCHANGED <<oai, nclients, now, last_media_ts, wait_deadline, chunk, tmp,
                   last_frame, clientVars, commit_calls, forced_calls,
                   process_calls, frames, ticks, msgs>>
    /\ UNCHANGED <<outVars, evVars, sideVars>>

\* The auto-commit check that ends every iteration but `stop`'s.
Check ==
    /\ pc = "check"
    /\ IF PauseExceeded(now - last_media_ts) /\ oai # 0 THEN
          /\ forced_calls' = forced_calls + 1
          /\ CommitAndRespond(oai, "recv", "auto_resp")
          /\ last_media_ts' = IF pc' = "recv" THEN now ELSE last_media_ts
       ELSE
          /\ pc' = "recv"
          /\ UNCHANGED <<cause, sent, commit_calls, forced_calls, last_media_ts>>
    /\ UNCHANGED <<oai, nclients, now, wait_deadline, chunk, tmp, tel,
                   last_frame, ws, sock, thr, connected, audio_buffer_size,
                   close_calls, process_calls, frames, ticks, msgs>>
    /\ UNCHANGED <<outVars, evVars, sideVars>>

AutoRespond ==
    /\ pc = "auto_resp"
    /\ CommitRespond(oai, "recv")
    /\ last_media_ts' = IF pc' = "recv" THEN now ELSE last_media_ts
    /\ UNCHANGED <<oai, nclients, now, wait_deadline, chunk, tmp, tel,
                   last_frame, ws, sock, thr, connected, close_calls,
                   commit_calls, forced_calls, process_calls, frames, ticks,
                   msgs>>
    /\ UNCHANGED <<outVars, evVars, sideVars>>

\* finally: oai.close() closes the current client's socket; the endpoint
\* returns and the server closes the telephony socket.
Finally ==
    /\ pc = "finally"
    /\ IF oai # 0 /\ ws[oai] THEN
          /\ close_calls' = [close_calls EXCEPT ![oai] = @ + 1]
          /\ sock' = [sock EXCEPT ![oai] = IF Live(oai) THEN "closed" ELSE @]
          /\ thr' = [thr EXCEPT ![oai] = "dead"]
       ELSE
          UNCHANGED <<close_calls, sock, thr>>
    /\ tel' = "disconnected"
    /\ pc' = "done"
    /\ UNCHANGED <<oai, nclients, now, last_media_ts, wait_deadline, chunk, tmp,
                   cause, last_frame, ws, connected, audio_buffer_size, sent,
                   commit_calls, forced_calls, process_calls, frames, ticks,
                   msgs>>
    /\ UNCHANGED <<outVars, evVars, sideVars>>

\* ------------------------------------------------- the run_forever threads
\* The call is followed up to the endpoint's return.
\* The handshake with the speech service completes.
SockOpen ==
    \E c \in Clients :
        /\ pc # "done"
        /\ thr[c] = "connecting"
        /\ sock[c] = "connecting"
        /\ sock' = [sock EXCEPT ![c] = "open"]
        /\ thr' = [thr EXCEPT ![c] = "on_open"]
        /\ UNCHANGED <<loopVars, now, ws, connected, audio_buffer_size, sent,
                       close_calls, process_calls, ticks, msgs>>
        /\ UNCHANGED <<outVars, evVars, sideVars>>

\* _on_open: session.update ...
OnOpenConfigure ==
    \E c \in Clients :
        /\ pc # "done"
        /\ thr[c] = "on_open"
        /\ sock[c] = "open"
        /\ sent' = [sent EXCEPT ![c] = Append(@, "session.update")]
        /\ thr' = [thr EXCEPT ![c] = "greet"]
        /\ UNCHANGED <<loopVars, now, ws, sock, connected, audio_buffer_size,
                       close_calls, process_calls, ticks, msgs>>
        /\ UNCHANGED <<outVars, evVars, sideVars>>

\* ... then the greeting's response.create, then _connected.set().
OnOpenGreet ==
    \E c \in Clients :
        /\ pc # "done"
        /\ thr[c] = "greet"
        /\ sock[c] = "open"
        /\ sent' = [sent EXCEPT ![c] = Append(@, "response.create")]
        /\ connected' = [connected EXCEPT ![c] = TRUE]
        /\ thr' = [thr EXCEPT ![c] = "run"]
        /\ UNCHANGED <<loopVars, now, ws, sock, audio_buffer_size, close_calls,
                       process_calls, ticks, msgs>>
        /\ UNCHANGED <<outVars, evVars, sideVars>>

\* The event types whose branch of _on_message sets audio_buffer_size to 0;
\* with a variant in which response.done alone does.
ResetsCounterOnDone(e) == e = "response.done"

ResetsCounter(e) ==
    e \in {"input_audio_buffer.speech_stopped", "response.done"}

\* `self.thread_id and ... self.user_id`: the guard of the save that
\* response.done makes; with a variant that saves for every client.
SavesHistoryAlways(u) == TRUE

SavesHistory(u) == Truthy(ThreadId(u)) /\ Truthy(u)

\* _on_message of client c with an event of type e.
OnEvent(c, e) ==
    /\ pc # "done"
    /\ thr[c] = "run"
    /\ sock[c] = "open"
    /\ msgs < MaxMsgs
    /\ msgs' = msgs + 1
    /\ audio_buffer_size' =
          IF ResetsCounter(e)
          THEN [audio_buffer_size EXCEPT ![c] = 0]
          ELSE audio_buffer_size
    /\ save_calls' =
          IF e = "response.done" /\ SavesHistory(client_user_id[c])
          THEN save_calls + 1
          ELSE save_calls
    /\ UNCHANGED <<loopVars, now, ws, sock, thr, connected, sent,
                   close_calls, process_calls, ticks>>
    /\ UNCHANGED <<outVars, client_user_id, sideVars>>

\* _on_message: an event of the speech service.
OnMessage == \E c \in Clients, e \in SpeechEvents : OnEvent(c, e)

\* The connection fails or the peer closes it: _on_error / _on_close log,
\* and run_forever returns.
SpeechDrop ==
    \E c \in Clients :
        /\ pc # "done"
        /\ Live(c)
        /\ sock' = [sock EXCEPT ![c] = "failed"]
        /\ thr' = [thr EXCEPT ![c] = "dead"]
        /\ UNCHANGED <<loopVars, now, ws, connected, audio_buffer_size, sent,
                       close_calls, process_calls, ticks, msgs>>
        /\ UNCHANGED <<outVars, evVars, sideVars>>

\* ------------------------------------------------- audio back to the caller
\* call_soon_threadsafe puts a callback at the back of the loop's queue;
\* with a variant that puts it at the front.
EnqueueFront(q, m) == <<m>> \o q

Enqueue(q, m) == Append(q, m)

\* A write made by the calling thread itself, in place of a hand-off.
WriteDirectly(m) ==
    /\ out' = Append(out, m)
    /\ UNCHANGED loop_q

\* asyncio.run_coroutine_threadsafe(websocket.send_text(...), event_loop):
\* the coroutine is queued on the loop and the future is dropped.
RunCoroutineThreadsafe(m) ==
    /\ loop_q' = Enqueue(loop_q, m)
    /\ UNCHANGED out

\* _on_message with a response.audio.delta: on_oai_audio transcodes the
\* chunk and, if application_state is CONNECTED, schedules its send.
OnAudioDelta ==
    \E c \in Clients :
        /\ pc # "done"
        /\ thr[c] = "run"
        /\ sock[c] = "open"
        /\ deltas < MaxDeltas
        /\ deltas' = deltas + 1
        /\ IF app_state = "connected" THEN
              RunCoroutineThreadsafe(deltas + 1)
           ELSE
              UNCHANGED <<loop_q, out>>
        /\ UNCHANGED <<loopVars, clientVars, now, process_calls, ticks, msgs,
                       app_state, appended, evVars, sideVars>>

\* The event loop, free while the endpoint awaits a frame and after it has
\* returned, runs the oldest scheduled send_text.  On a socket the caller
\* has left the send raises inside the coroutine; Starlette then leaves
\* application_state as it is or, in later versions, sets DISCONNECTED.
LoopSend ==
    /\ pc \in {"recv", "done"}
    /\ loop_q # <<>>
    /\ loop_q' = Tail(loop_q)
    /\ IF app_state = "connected" /\ tel = "connected" THEN
          /\ out' = Append(out, Head(loop_q))
          /\ UNCHANGED app_state
       ELSE
          /\ app_state' \in {app_state, "disconnected"}
          /\ UNCHANGED out
    /\ UNCHANGED <<loopVars, clientVars, now, process_calls, ticks, msgs,
                   deltas, appended, evVars, sideVars>>

\* --------------------------------------------------------- POST /v2/process-call
\* The post-call processing ("Process completed call") is an HTTP endpoint of
\* its own, requested by a client of the service once a call is over.
ProcessCallV2 ==
    /\ pc = "done"
    /\ process_calls < MaxPosts
    /\ process_calls' = process_calls + 1
    /\ UNCHANGED <<loopVars, clientVars, now, ticks, msgs>>
    /\ UNCHANGED <<outVars, evVars, sideVars>>

\* ------------------------------------------- the rolling-transcript cache
\* THREAD_HISTORY and THREAD_LOADED are shared by every call of the process.
\* Here MaxCalls calls run at once, each reduced to what touches the cache:
\* its start frame on the event loop and the events of its speech thread.
\* A message is <<k, i>>, the i-th line of call k; <<0, 1>> is a line saved
\* by an earlier run of the process.
HistOf(t) == IF THREAD_HISTORY[t] = 0 THEN <<>> ELSE deques[THREAD_HISTORY[t]]

HistInit ==
    /\ BridgeInit
    /\ CodecIdle
    /\ SetupIdle
    /\ StreamIdle
    /\ THREAD_HISTORY = [t \in Keys |-> 0]
    /\ THREAD_LOADED = [t \in Keys |-> FALSE]
    /\ deques = [o \in Objs |-> <<>>]
    /\ nobjs = 0
    /\ store \in [Keys -> {<<>>, << <<0, 1>> >>}]
    /\ call_pc = [k \in Calls |-> "idle"]
    /\ user_id = [k \in Calls |-> None]
    /\ thread_id = [k \in Calls |-> None]
    /\ ref = [k \in Calls |-> 0]
    /\ it_len = [k \in Calls |-> 0]
    /\ messages = [k \in Calls |-> <<>>]
    /\ said = [k \in Calls |-> 0]
    /\ searches = [t \in Keys |-> 0]

\* The body of load_thread_history(t) behind its THREAD_LOADED test: the
\* search, after which a stored history replaces the deque under the key;
\* if nothing is stored, or the search raises, the key is marked as loaded
\* all the same.
SearchAndRestore(t) ==
    /\ searches' = [searches EXCEPT ![t] = @ + 1]
    /\ THREAD_LOADED' = [THREAD_LOADED EXCEPT ![t] = TRUE]
    /\ \/ /\ store[t] # <<>>
          /\ nobjs' = nobjs + 1
          /\ deques' = [deques EXCEPT ![nobjs + 1] = store[t]]
          /\ THREAD_HISTORY' = [THREAD_HISTORY EXCEPT ![t] = nobjs + 1]
       \/ UNCHANGED <<THREAD_HISTORY, deques, nobjs>>

\* A load that does not test THREAD_LOADED.
LoadThreadHistoryAgain(t) == SearchAndRestore(t)

\* load_thread_history(t): once per key.
LoadThreadHistory(t) ==
    IF THREAD_LOADED[t] THEN
       UNCHANGED <<THREAD_HISTORY, THREAD_LOADED, deques, nobjs, searches>>
    ELSE
       SearchAndRestore(t)

\* The start frame of call k: user_id, thread_id, the load, the client.
StartCall ==
    \E k \in Calls, u \in UserIds :
        /\ call_pc[k] = "idle"
        /\ user_id' = [user_id EXCEPT ![k] = u]
        /\ thread_id' = [thread_id EXCEPT ![k] = ThreadId(u)]
        /\ IF ThreadId(u) # None /\ Truthy(u) THEN
              LoadThreadHistory(ThreadId(u)[1])
           ELSE
              UNCHANGED <<THREAD_HISTORY, THREAD_LOADED, deques, nobjs, searches>>
        /\ call_pc' = [call_pc EXCEPT ![k] = "run"]
        /\ UNCHANGED <<bridgeVars, codecVars, setupVars, streamVars, store, ref, it_len, messages, said>>

\* A transcript event on the thread of call k: the subscript
\* THREAD_HISTORY[self.thread_id].  A missing key makes defaultdict call
\* its factory for a new deque ...
AppendGet ==
    \E k \in Calls :
        /\ call_pc[k] = "run"
        /\ thread_id[k] # None
        /\ said[k] < MaxSays
        /\ IF THREAD_HISTORY[thread_id[k][1]] # 0 THEN
              /\ ref' = [ref EXCEPT ![k] = THREAD_HISTORY[thread_id[k][1]]]
              /\ call_pc' = [call_pc EXCEPT ![k] = "append"]
              /\ UNCHANGED nobjs
           ELSE
              /\ nobjs' = nobjs + 1
              /\ ref' = [ref EXCEPT ![k] = nobjs + 1]
              /\ call_pc' = [call_pc EXCEPT ![k] = "missing"]
        /\ UNCHANGED <<bridgeVars, codecVars, setupVars, streamVars, searches, THREAD_HISTORY, THREAD_LOADED, deques, store,
                       user_id, thread_id, it_len, messages, said>>

\* ... and store it under the key, whatever is there by now.
AppendSet ==
    \E k \in Calls :
        /\ call_pc[k] = "missing"
        /\ THREAD_HISTORY' = [THREAD_HISTORY EXCEPT ![thread_id[k][1]] = ref[k]]
        /\ call_pc' = [call_pc EXCEPT ![k] = "append"]
        /\ UNCHANGED <<bridgeVars, codecVars, setupVars, streamVars, searches, THREAD_LOADED, deques, nobjs, store, user_id,
                       thread_id, ref, it_len, messages, said>>

\* .append((role, text)) on the deque the subscript returned.
AppendPut ==
    \E k \in Calls :
        /\ call_pc[k] = "append"
        /\ deques' = [deques EXCEPT ![ref[k]] = Append(@, <<k, said[k] + 1>>)]
        /\ said' = [said EXCEPT ![k] = @ + 1]
        /\ ref' = [ref EXCEPT ![k] = 0]
        /\ call_pc' = [call_pc EXCEPT ![k] = "run"]
        /\ UNCHANGED <<bridgeVars, codecVars, setupVars, streamVars, searches, THREAD_HISTORY, THREAD_LOADED, nobjs, store,
                       user_id, thread_id, it_len, messages>>

\* response.done on the thread of call k: save_thread_history() gets the
\* deque and, unless it is empty, starts to iterate over it.
SaveBegin ==
    \E k \in Calls :
        /\ call_pc[k] = "run"
        /\ thread_id[k] # None
        /\ Truthy(user_id[k])
        /\ HistOf(thread_id[k][1]) # <<>>
        /\ ref' = [ref EXCEPT ![k] = THREAD_HISTORY[thread_id[k][1]]]
        /\ it_len' = [it_len EXCEPT ![k] = Len(HistOf(thread_id[k][1]))]
        /\ messages' = [messages EXCEPT ![k] = <<>>]
        /\ call_pc' = [call_pc EXCEPT ![k] = "save"]
        /\ UNCHANGED <<bridgeVars, codecVars, setupVars, streamVars, searches, THREAD_HISTORY, THREAD_LOADED, deques, nobjs,
                       store, user_id, thread_id, said>>

\* One step of the list comprehension: the iterator raises RuntimeError if
\* the deque has been mutated since the iteration began, and the save is
\* given up (`except Exception`).
SaveNext ==
    \E k \in Calls :
        /\ call_pc[k] = "save"
        /\ Len(messages[k]) < it_len[k]
        /\ IF Len(deques[ref[k]]) # it_len[k] THEN
              /\ call_pc' = [call_pc EXCEPT ![k] = "run"]
              /\ ref' = [ref EXCEPT ![k] = 0]
              /\ it_len' = [it_len EXCEPT ![k] = 0]
              /\ messages' = [messages EXCEPT ![k] = <<>>]
           ELSE
              /\ messages' = [messages EXCEPT ![k] =
                                  Append(@, deques[ref[k]][Len(@) + 1])]
              /\ UNCHANGED <<call_pc, ref, it_len>>
        /\ UNCHANGED <<bridgeVars, codecVars, setupVars, streamVars, searches, THREAD_HISTORY, THREAD_LOADED, deques, nobjs,
                       store, user_id, thread_id, said>>

\* The iterator is exhausted: mem_store.write(...) saves the list.
SaveWrite ==
    \E k \in Calls :
        /\ call_pc[k] = "save"
        /\ Len(messages[k]) = it_len[k]
        /\ store' = [store EXCEPT ![thread_id[k][1]] = messages[k]]
        /\ call_pc' = [call_pc EXCEPT ![k] = "run"]
        /\ ref' = [ref EXCEPT ![k] = 0]
        /\ it_len' = [it_len EXCEPT ![k] = 0]
        /\ messages' = [messages EXCEPT ![k] = <<>>]
        /\ UNCHANGED <<bridgeVars, codecVars, setupVars, streamVars, searches, THREAD_HISTORY, THREAD_LOADED, deques, nobjs,
                       user_id, thread_id, said>>

\* The endpoint of call k leaves its loop: `finally` calls oai.close(), which
\* ends the speech thread; nothing is done about the history.
EndCall ==
    \E k \in Calls :
        /\ call_pc[k] = "run"
        /\ call_pc' = [call_pc EXCEPT ![k] = "closed"]
        /\ UNCHANGED <<bridgeVars, codecVars, setupVars, streamVars, searches, THREAD_HISTORY,
                       THREAD_LOADED, deques, nobjs, store, user_id, thread_id,
                       ref, it_len, messages, said>>

HistNext ==
    \/ StartCall
    \/ EndCall
    \/ AppendGet
    \/ AppendSet
    \/ AppendPut
    \/ SaveBegin
    \/ SaveNext
    \/ SaveWrite

HistSpec == HistInit /\ [][HistNext]_vars

\* ----------------------------------------------------- the pure converters
\* The four converters applied to a buffer, outside any call.
CodecInit ==
    /\ BridgeInit
    /\ HistIdle
    /\ SetupIdle
    /\ StreamIdle
    /\ codec_in \in Buffers
    /\ codec_out = <<>>
    /\ codec_out2 = <<>>
    /\ codec_pc = "in"

\* np.frombuffer and audioop reject a buffer that is not whole samples.
RejectOdd ==
    /\ codec_pc = "in"
    /\ Len(codec_in) % 2 = 1
    /\ codec_pc' = "error"
    /\ UNCHANGED <<bridgeVars, histVars, setupVars, streamVars, codec_in, codec_out, codec_out2>>

\* downsample_24k_to_8k(upsample_8k_to_24k(x))
ResampleRoundTrip ==
    /\ codec_pc = "in"
    /\ Len(codec_in) % 2 = 0
    /\ codec_out' = downsample_24k_to_8k(upsample_8k_to_24k(codec_in))
    /\ codec_pc' = "resampled"
    /\ UNCHANGED <<bridgeVars, histVars, setupVars, streamVars, codec_in, codec_out2>>

\* pcmu8k_to_pcm16_8k(pcm16_8k_to_pcmu8k(x))
MuLawRoundTrip ==
    /\ codec_pc = "in"
    /\ Len(codec_in) % 2 = 0
    /\ codec_out' = pcmu8k_to_pcm16_8k(pcm16_8k_to_pcmu8k(codec_in))
    /\ codec_pc' = "coded"
    /\ UNCHANGED <<bridgeVars, histVars, setupVars, streamVars, codec_in, codec_out2>>

\* ... and the same again on its result.
MuLawRoundTripAgain ==
    /\ codec_pc = "coded"
    /\ codec_out2' = pcmu8k_to_pcm16_8k(pcm16_8k_to_pcmu8k(codec_out))
    /\ codec_pc' = "recoded"
    /\ UNCHANGED <<bridgeVars, histVars, setupVars, streamVars, codec_in, codec_out>>

CodecNext ==
    \/ RejectOdd
    \/ ResampleRoundTrip
    \/ MuLawRoundTrip
    \/ MuLawRoundTripAgain

CodecSpec == CodecInit /\ [][CodecNext]_vars

\* -------------------------------------------------------------------- spec
LoopStep ==
    \/ ConnectReady
    \/ ConnectTimeout
    \/ SendWrite
    \/ MarkRespond
    \/ Check
    \/ AutoRespond
    \/ Finally

ThreadStep ==
    \/ SockOpen
    \/ OnOpenConfigure
    \/ OnOpenGreet

Next ==
    \/ Tick
    \/ RecvStart
    \/ RecvMedia
    \/ RecvMark
    \/ RecvStop
    \/ RecvBad
    \/ RecvUnknown
    \/ RecvDisconnect
    \/ OnMessage
    \/ OnAudioDelta
    \/ LoopSend
    \/ SpeechDrop
    \/ ProcessCallV2
    \/ LoopStep
    \/ ThreadStep

Spec == Init /\ [][Next]_vars

\* The program's own steps are taken when they can be; frames, events of the
\* speech service, failures and the clock are the environment's.
FairSpec == Spec /\ WF_vars(LoopStep) /\ WF_vars(ThreadStep)

\* ----------------------------------------------- one client, from __init__
\* An OAIRealtime object as its constructor leaves it (self.ws is None; the
\* user_id is the constructor's argument), held by the endpoint or not yet
\* made; then connect(), and the calls the endpoint makes on the object.
ClientInit ==
    /\ Accepted
    /\ HistIdle
    /\ CodecIdle
    /\ SetupIdle
    /\ StreamIdle
    /\ oai \in {0, 1}
    /\ nclients = oai
    /\ client_user_id \in [Clients -> UserIds]
    /\ \A c \in Clients : c > nclients => client_user_id[c] = None

\* connect(): the WebSocketApp is built, its thread started, and the caller
\* waits for _connected.
Connect ==
    /\ pc = "recv"
    /\ oai # 0
    /\ ~ws[oai]
    /\ ws' = [ws EXCEPT ![oai] = TRUE]
    /\ sock' = [sock EXCEPT ![oai] = "connecting"]
    /\ thr' = [thr EXCEPT ![oai] = "connecting"]
    /\ wait_deadline' = now + CONNECT_TIMEOUT_MS
    /\ pc' = "connect_wait"
    /\ UNCHANGED <<oai, nclients, now, last_media_ts, chunk, tmp, tel, cause,
                   last_frame, connected, audio_buffer_size, sent, close_calls,
                   commit_calls, forced_calls, process_calls, frames, ticks,
                   msgs>>
    /\ UNCHANGED <<outVars, evVars, sideVars>>

ClientNext ==
    \/ Connect
    \/ Tick
    \/ RecvMedia
    \/ RecvMark
    \/ RecvStop
    \/ RecvBad
    \/ RecvUnknown
    \/ RecvDisconnect
    \/ OnMessage
    \/ LoopStep
    \/ ThreadStep

ClientSpec == ClientInit /\ [][ClientNext]_vars

\* ------------------------------------------------ the start branch's setup
\* What the branch looks up, and how a lookup can end.  A setting is the
\* default (no stored value, or a lookup that failed inside get_setting),
\* a stored string, or a stored value that is not a string (null).
MaxMemories == 1

DEFAULT_AGENT_NAME == "Betsy"
DEFAULT_VOICE == "alloy"
SettingOutcomes == {"default", "failed", "stored", "malformed"}

\* get_admin_setting(key, default): get_setting catches what its lookup
\* raises and returns the default.
SettingValue(outcome, default) ==
    CASE outcome \in {"default", "failed"} -> <<default>>
      [] outcome = "stored" -> <<"stored">>
      [] OTHER -> None

\* isinstance(v, str), of a setting's value.
IsStr(v) == v # None

\* The one-line instructions of the `except Exception` branch.
DEFAULT_INSTRUCTIONS ==
    [base |-> "default", identity |-> None, history |-> FALSE,
     greeting |-> None, memory |-> FALSE]

\* The start frame has been parsed: user_id, is_callback and thread_id are
\* known, nothing has been looked up.  The cache is as a running process
\* has it: some threads stored by earlier runs.
SetupInit ==
    /\ BridgeInit
    /\ CodecIdle
    /\ StreamIdle
    /\ THREAD_HISTORY = [t \in Keys |-> 0]
    /\ THREAD_LOADED = [t \in Keys |-> FALSE]
    /\ deques = [o \in Objs |-> <<>>]
    /\ nobjs = 0
    /\ store \in [Keys -> {<<>>, << <<0, 1>> >>}]
    /\ call_pc = [k \in Calls |-> "idle"]
    /\ user_id = [k \in Calls |-> None]
    /\ thread_id = [k \in Calls |-> None]
    /\ ref = [k \in Calls |-> 0]
    /\ it_len = [k \in Calls |-> 0]
    /\ messages = [k \in Calls |-> <<>>]
    /\ said = [k \in Calls |-> 0]
    /\ searches = [t \in Keys |-> 0]
    /\ setup_pc = "store"
    /\ setup_user \in UserIds
    /\ is_callback \in BOOLEAN
    /\ mem_store = "unset"
    /\ memories = 0
    /\ instructions = None
    /\ agent_name = None
    /\ openai_voice = None
    /\ failed = {}
    /\ setup_client = None
    /\ setup_connects = 0

\* An `except Exception` that lets the exception go on to the handler of
\* the receive loop.
SetupExceptReraise(who) ==
    /\ setup_pc' = "finally"
    /\ failed' = failed \cup who
    /\ UNCHANGED instructions

\* `except Exception`: the error is logged and the instructions are the
\* default ones; the branch goes on with the voice.
SetupExcept(who) ==
    /\ setup_pc' = "voice"
    /\ failed' = failed \cup who
    /\ instructions' = DEFAULT_INSTRUCTIONS

\* MemoryStore(): raises without DATABASE_URL; a connection that cannot be
\* made leaves a store that is not available.
SetupStore ==
    /\ setup_pc = "store"
    /\ \E outcome \in {"available", "degraded", "raises"} :
          IF outcome = "raises" THEN
             /\ SetupExcept({"memory_store"})
             /\ UNCHANGED mem_store
          ELSE
             /\ mem_store' = outcome
             /\ setup_pc' = "load"
             /\ failed' = IF outcome = "degraded" THEN failed \cup {"memory_store"}
                          ELSE failed
             /\ UNCHANGED instructions
    /\ UNCHANGED <<setup_user, is_callback, memories, agent_name, openai_voice,
                   setup_client, setup_connects>>
    /\ UNCHANGED <<bridgeVars, histVars, codecVars, streamVars>>

\* `if thread_id and user_id: load_thread_history(...)`.  A search that
\* fails returns nothing, and the load marks the thread as loaded.
SetupLoad ==
    /\ setup_pc = "load"
    /\ IF Truthy(ThreadId(setup_user)) /\ Truthy(setup_user) THEN
          \E fails \in BOOLEAN :
             /\ mem_store = "degraded" => fails
             /\ fails => ~THREAD_LOADED[ThreadId(setup_user)[1]]
             /\ LoadThreadHistory(ThreadId(setup_user)[1])
             /\ fails => UNCHANGED THREAD_HISTORY
             /\ failed' = IF fails THEN failed \cup {"thread_history"} ELSE failed
       ELSE
          /\ UNCHANGED <<THREAD_HISTORY, THREAD_LOADED, deques, nobjs, searches>>
          /\ UNCHANGED failed
    /\ setup_pc' = "fetch"
    /\ UNCHANGED <<setup_user, is_callback, mem_store, memories, instructions,
                   agent_name, openai_voice, setup_client, setup_connects>>
    /\ UNCHANGED <<store, call_pc, user_id, thread_id, ref, it_len, messages, said>>
    /\ UNCHANGED <<bridgeVars, codecVars, streamVars>>

\* `memories = mem_store.get_user_memories(...) if user_id else []`; the
\* store returns [] when its query fails.
SetupFetch ==
    /\ setup_pc = "fetch"
    /\ IF Truthy(setup_user) THEN
          \E n \in 0..MaxMemories, fails \in BOOLEAN :
             /\ mem_store = "degraded" => fails
             /\ memories' = IF fails THEN 0 ELSE n
             /\ failed' = IF fails THEN failed \cup {"user_memories"} ELSE failed
       ELSE
          /\ memories' = 0
          /\ UNCHANGED failed
    /\ setup_pc' = "prompt"
    /\ UNCHANGED <<setup_user, is_callback, mem_store, instructions, agent_name,
                   openai_voice, setup_client, setup_connects>>
    /\ UNCHANGED <<bridgeVars, histVars, codecVars, streamVars>>

\* The prompt file, or the one-line prompt if it is missing; then the
\* agent's name and the identity section.
SetupIdentity ==
    /\ setup_pc = "prompt"
    /\ \E found \in BOOLEAN, outcome \in SettingOutcomes :
          /\ agent_name' = SettingValue(outcome, DEFAULT_AGENT_NAME)
          /\ instructions' = [base |-> IF found THEN "file" ELSE "default",
                              identity |-> <<agent_name'>>, history |-> FALSE,
                              greeting |-> None, memory |-> FALSE]
          /\ failed' = IF outcome = "failed" THEN failed \cup {"agent_name"}
                       ELSE failed
    /\ setup_pc' = "history"
    /\ UNCHANGED <<setup_user, is_callback, mem_store, memories, openai_voice,
                   setup_client, setup_connects>>
    /\ UNCHANGED <<bridgeVars, histVars, codecVars, streamVars>>

\* `if thread_id and THREAD_HISTORY.get(thread_id)`: the history section.
SetupHistory ==
    /\ setup_pc = "history"
    /\ instructions' =
          [instructions EXCEPT !.history =
              /\ ThreadId(setup_user) # None
              /\ HistOf(ThreadId(setup_user)[1]) # <<>>]
    /\ setup_pc' = "greeting"
    /\ UNCHANGED <<setup_user, is_callback, mem_store, memories, agent_name,
                   openai_voice, failed, setup_client, setup_connects>>
    /\ UNCHANGED <<bridgeVars, histVars, codecVars, streamVars>>

\* The greeting section: the template of a returning or of a new caller,
\* and str.replace on it with the agent's name, which raises if either is
\* not a string.
SetupGreeting ==
    /\ setup_pc = "greeting"
    /\ \E outcome \in SettingOutcomes :
          LET template == SettingValue(outcome, "default")
              who == IF outcome = "failed" THEN {"greeting"} ELSE {}
          IN  IF IsStr(template) /\ IsStr(agent_name) THEN
                 /\ instructions' =
                       [instructions EXCEPT !.greeting =
                           <<IF is_callback /\ memories > 0 THEN "returning"
                             ELSE "new", template>>]
                 /\ failed' = failed \cup who
                 /\ setup_pc' = "normalize"
              ELSE
                 SetupExcept(who)
    /\ UNCHANGED <<setup_user, is_callback, mem_store, memories, agent_name,
                   openai_voice, setup_client, setup_connects>>
    /\ UNCHANGED <<bridgeVars, histVars, codecVars, streamVars>>

\* `if memories: normalized = mem_store.normalize_memories(memories)`:
\* MemoryStore has no such method, and the AttributeError is caught.
SetupNormalize ==
    /\ setup_pc = "normalize"
    /\ IF memories > 0 THEN
          SetupExcept({})
       ELSE
          /\ setup_pc' = "voice"
          /\ UNCHANGED <<instructions, failed>>
    /\ UNCHANGED <<setup_user, is_callback, mem_store, memories, agent_name,
                   openai_voice, setup_client, setup_connects>>
    /\ UNCHANGED <<bridgeVars, histVars, codecVars, streamVars>>

\* `openai_voice = get_admin_setting("openai_voice", "alloy")`, after the
\* try statement.
SetupVoice ==
    /\ setup_pc = "voice"
    /\ \E outcome \in SettingOutcomes :
          /\ openai_voice' = SettingValue(outcome, DEFAULT_VOICE)
          /\ failed' = IF outcome = "failed" THEN failed \cup {"openai_voice"}
                       ELSE failed
    /\ setup_pc' = "construct"
    /\ UNCHANGED <<setup_user, is_callback, mem_store, memories, instructions,
                   agent_name, setup_client, setup_connects>>
    /\ UNCHANGED <<bridgeVars, histVars, codecVars, streamVars>>

\* `oai = OAIRealtime(...)` and `oai.connect()`; the branch ends and the
\* loop is back at receive_text().
SetupConnect ==
    /\ setup_pc = "construct"
    /\ setup_client' = [system_instructions |-> instructions,
                        voice |-> openai_voice,
                        thread_id |-> ThreadId(setup_user),
                        user_id |-> setup_user]
    /\ setup_connects' = setup_connects + 1
    /\ setup_pc' = "recv"
    /\ UNCHANGED <<setup_user, is_callback, mem_store, memories, instructions,
                   agent_name, openai_voice, failed>>
    /\ UNCHANGED <<bridgeVars, histVars, codecVars, streamVars>>

SetupNext ==
    \/ SetupStore
    \/ SetupLoad
    \/ SetupFetch
    \/ SetupIdentity
    \/ SetupHistory
    \/ SetupGreeting
    \/ SetupNormalize
    \/ SetupVoice
    \/ SetupConnect

SetupSpec == SetupInit /\ [][SetupNext]_vars

\* ----------------------------------------------------- chat_realtime_stream
\* Time is counted in half seconds, the timeout of token_queue.get().
STREAM_TIMEOUT_HS == 240
GET_TIMEOUT_HS == 1
MaxStreamEvents == 3

\* A delta is empty, blank or holds a word.
Deltas == {"", " ", "w"}

\* response_text + delta, by what strip() leaves of the result.
Cat(text, d) ==
    CASE text = "w" \/ d = "w" -> "w"
      [] text = " " \/ d = " " -> " "
      [] OTHER -> ""

\* str.strip()
Strip(text) == IF text = "w" THEN "w" ELSE ""

\* len(token.split()): the chunks a token yields.
Words(token) == IF token = <<"w">> THEN <<"word">> ELSE <<>>

\* The generator has been called and has not run yet.
StreamInit ==
    /\ BridgeInit
    /\ HistIdle
    /\ CodecIdle
    /\ SetupIdle
    /\ gen_pc = "start"
    /\ ws_pc = "idle"
    /\ token_queue = <<>>
    /\ response_complete = FALSE
    /\ error_occurred = FALSE
    /\ response_text = ""
    /\ delta = None
    /\ yielded = <<>>
    /\ stream_now = 0
    /\ stream_events = 0

\* Up to the loop.  Without WebSocketApp the generator yields the words of
\* chat(), which may raise or return nothing; without an api_key, or if the
\* socket or its thread cannot be made, it yields one apology; else the
\* thread is started.
StreamBegin ==
    /\ gen_pc = "start"
    /\ \E path \in {"fallback_raises", "fallback_empty", "fallback_words",
                    "no_api_key", "connect_raises", "thread"} :
          CASE path = "fallback_raises" ->
                 gen_pc' = "raised" /\ UNCHANGED <<yielded, ws_pc>>
            [] path = "fallback_empty" ->
                 gen_pc' = "done" /\ UNCHANGED <<yielded, ws_pc>>
            [] path = "fallback_words" ->
                 gen_pc' = "done" /\ yielded' = <<"word">> /\ UNCHANGED ws_pc
            [] path \in {"no_api_key", "connect_raises"} ->
                 gen_pc' = "done" /\ yielded' = <<"apology">> /\ UNCHANGED ws_pc
            [] OTHER ->
                 gen_pc' = "loop" /\ ws_pc' = "opening" /\ UNCHANGED yielded
    /\ UNCHANGED <<token_queue, response_complete, error_occurred, response_text,
                   delta, stream_now, stream_events>>
    /\ UNCHANGED <<bridgeVars, histVars, codecVars, setupVars>>

\* `while (time.time() - start_time) < timeout`
LoopTest ==
    /\ gen_pc = "loop"
    /\ gen_pc' = IF stream_now < STREAM_TIMEOUT_HS THEN "get" ELSE "after"
    /\ UNCHANGED <<ws_pc, token_queue, response_complete, error_occurred,
                   response_text, delta, yielded, stream_now, stream_events>>
    /\ UNCHANGED <<bridgeVars, histVars, codecVars, setupVars>>

\* token_queue.get() returns a token: None ends the loop, a delta is
\* yielded word by word.
GetToken ==
    /\ gen_pc = "get"
    /\ token_queue # <<>>
    /\ token_queue' = Tail(token_queue)
    /\ IF Head(token_queue) = None THEN
          /\ gen_pc' = "after"
          /\ UNCHANGED yielded
       ELSE
          /\ gen_pc' = "loop"
          /\ yielded' = yielded \o Words(Head(token_queue))
    /\ UNCHANGED <<ws_pc, response_complete, error_occurred, response_text,
                   delta, stream_now, stream_events>>
    /\ UNCHANGED <<bridgeVars, histVars, codecVars, setupVars>>

\* token_queue.get(timeout=0.5) raises Empty, and the bare `except` has it.
GetTimeout ==
    /\ gen_pc = "get"
    /\ token_queue = <<>>
    /\ stream_now' = stream_now + GET_TIMEOUT_HS
    /\ gen_pc' = "empty"
    /\ UNCHANGED <<ws_pc, token_queue, response_complete, error_occurred,
                   response_text, delta, yielded, stream_events>>
    /\ UNCHANGED <<bridgeVars, histVars, codecVars, setupVars>>

\* `if response_complete: break` / `continue`
OnEmpty ==
    /\ gen_pc = "empty"
    /\ gen_pc' = IF response_complete THEN "after" ELSE "loop"
    /\ UNCHANGED <<ws_pc, token_queue, response_complete, error_occurred,
                   response_text, delta, yielded, stream_now, stream_events>>
    /\ UNCHANGED <<bridgeVars, histVars, codecVars, setupVars>>

\* After the loop: an apology if response_text is blank, and ws.close().
AfterLoop ==
    /\ gen_pc = "after"
    /\ yielded' = IF Strip(response_text) = "" THEN Append(yielded, "apology")
                  ELSE yielded
    /\ gen_pc' = "done"
    /\ ws_pc' = "closed"
    /\ UNCHANGED <<token_queue, response_complete, error_occurred, response_text,
                   delta, stream_now, stream_events>>
    /\ UNCHANGED <<bridgeVars, histVars, codecVars, setupVars>>

\* The generator is held at a yield by its consumer, or its thread is not
\* scheduled, for most of the timeout.
StreamPause ==
    /\ gen_pc = "loop"
    /\ stream_now <= STREAM_TIMEOUT_HS
    /\ stream_now' = stream_now + (STREAM_TIMEOUT_HS - 1)
    /\ UNCHANGED <<gen_pc, ws_pc, token_queue, response_complete, error_occurred,
                   response_text, delta, yielded, stream_events>>
    /\ UNCHANGED <<bridgeVars, histVars, codecVars, setupVars>>

\* on_open: the session and the request are sent, or a send raises and
\* None is queued; error_occurred is a local of on_open there.
OnOpen ==
    /\ ws_pc = "opening"
    /\ ws_pc' = "running"
    /\ \E ok \in BOOLEAN :
          token_queue' = IF ok THEN token_queue ELSE Append(token_queue, None)
    /\ UNCHANGED <<gen_pc, response_complete, error_occurred, response_text,
                   delta, yielded, stream_now, stream_events>>
    /\ UNCHANGED <<bridgeVars, histVars, codecVars, setupVars>>

\* on_message, response.text.delta: `response_text += delta` ...
OnDeltaAdd ==
    /\ ws_pc = "running"
    /\ stream_events < MaxStreamEvents
    /\ \E d \in Deltas :
          /\ response_text' = Cat(response_text, d)
          /\ delta' = <<d>>
    /\ ws_pc' = "adding"
    /\ stream_events' = stream_events + 1
    /\ UNCHANGED <<gen_pc, token_queue, response_complete, error_occurred,
                   yielded, stream_now>>
    /\ UNCHANGED <<bridgeVars, histVars, codecVars, setupVars>>

\* ... and `if delta: token_queue.put(delta)`.
OnDeltaPut ==
    /\ ws_pc = "adding"
    /\ token_queue' = IF delta # <<"">> THEN Append(token_queue, delta)
                      ELSE token_queue
    /\ delta' = None
    /\ ws_pc' = "running"
    /\ UNCHANGED <<gen_pc, response_complete, error_occurred, response_text,
                   yielded, stream_now, stream_events>>
    /\ UNCHANGED <<bridgeVars, histVars, codecVars, setupVars>>

\* on_message, response.text.done.
OnTextDone ==
    /\ ws_pc = "running"
    /\ stream_events < MaxStreamEvents
    /\ response_complete' = TRUE
    /\ token_queue' = Append(token_queue, None)
    /\ stream_events' = stream_events + 1
    /\ UNCHANGED <<gen_pc, ws_pc, error_occurred, response_text, delta, yielded,
                   stream_now>>
    /\ UNCHANGED <<bridgeVars, histVars, codecVars, setupVars>>

\* on_message with an error event, and on_error.
OnStreamError ==
    /\ ws_pc \in {"opening", "running"}
    /\ stream_events < MaxStreamEvents
    /\ error_occurred' = TRUE
    /\ response_complete' = TRUE
    /\ token_queue' = Append(token_queue, None)
    /\ stream_events' = stream_events + 1
    /\ UNCHANGED <<gen_pc, ws_pc, response_text, delta, yielded, stream_now>>
    /\ UNCHANGED <<bridgeVars, histVars, codecVars, setupVars>>

\* on_close, by the service or after the generator's ws.close().
OnStreamClose ==
    /\ ws_pc \in {"opening", "running", "closed"}
    /\ stream_events < MaxStreamEvents
    /\ response_complete' = TRUE
    /\ token_queue' = Append(token_queue, None)
    /\ ws_pc' = "ended"
    /\ stream_events' = stream_events + 1
    /\ UNCHANGED <<gen_pc, error_occurred, response_text, delta, yielded,
                   stream_now>>
    /\ UNCHANGED <<bridgeVars, histVars, codecVars, setupVars>>

GeneratorStep ==
    \/ StreamBegin
    \/ LoopTest
    \/ GetToken
    \/ GetTimeout
    \/ OnEmpty
    \/ AfterLoop

StreamThreadStep ==
    \/ OnOpen
    \/ OnDeltaAdd
    \/ OnDeltaPut
    \/ OnTextDone
    \/ OnStreamError
    \/ OnStreamClose

StreamNext ==
    \/ GeneratorStep
    \/ StreamPause
    \/ StreamThreadStep

StreamSpec == StreamInit /\ [][StreamNext]_vars

\* The generator's consumer keeps asking for the next chunk.
StreamFairSpec == StreamSpec /\ WF_vars(GeneratorStep)

\* The generator ends, if it keeps being resumed.
StreamTerminates == <>(gen_pc \in {"done", "raised"})

\* ------------------------------------------------------------------ claims
Rank(s) ==
    CASE s = "IDLE" -> 0
      [] s = "CONNECTING" -> 1
      [] s = "ACTIVE" -> 2
      [] s = "CLOSING" -> 3
      [] OTHER -> 4

Last(q) == q[Len(q)]

\* The endpoint and the threads have no step of their own to take.
Quiescent == ~ENABLED LoopStep /\ ~ENABLED ThreadStep

\* C1: on a client whose socket is open, a commit_and_respond() call made
\* with fewer than 4800 buffered bytes sends nothing and leaves the counter
\* as it is; with 4800 or more it sends one input_audio_buffer.commit, then
\* one response.create, and sets the counter to 0.
C1_CommitAndRespond ==
    [][/\ (commit_calls' = commit_calls + 1 /\ oai # 0 /\ sock[oai] = "open") =>
             IF audio_buffer_size[oai] < 4800
             THEN /\ sent' = sent
                  /\ audio_buffer_size' = audio_buffer_size
                  /\ pc' \in {"check", "recv"}
             ELSE /\ sent' = [sent EXCEPT ![oai] =
                                  Append(@, "input_audio_buffer.commit")]
                  /\ pc' \in {"mark_resp", "auto_resp"}
       /\ (pc \in {"mark_resp", "auto_resp"} /\ pc' # pc /\ sock[oai] = "open") =>
             /\ sent' = [sent EXCEPT ![oai] = Append(@, "response.create")]
             /\ audio_buffer_size'[oai] = 0
             /\ pc' \in {"check", "recv"}
       /\ commit_calls' \in {commit_calls, commit_calls + 1}
      ]_vars

\* A mark committed 4800 buffered bytes: commit, response.create, counter 0.
C1_Witness ==
    /\ pc = "check"
    /\ last_frame = "mark"
    /\ commit_calls = 1
    /\ Len(sent[oai]) >= 2
    /\ Last(sent[oai]) = "response.create"
    /\ sent[oai][Len(sent[oai]) - 1] = "input_audio_buffer.commit"
    /\ audio_buffer_size[oai] = 0

\* C2: at the check that ends a loop iteration, while the session is ACTIVE,
\* a gap of more than 700 ms since last_media_ts makes exactly one forced
\* commit_and_respond() call and, when the loop goes on, sets last_media_ts
\* to the current time; a gap of 700 ms or less makes no call and changes
\* nothing.  No other step makes a forced call.
C2_ForcedCommitOnPause ==
    [][/\ (pc = "check" /\ pc' # "check") =>
             IF now - last_media_ts > 700 /\ State = "ACTIVE"
             THEN /\ forced_calls' = forced_calls + 1
                  /\ commit_calls' = commit_calls + 1
                  /\ pc' \in {"recv", "auto_resp", "finally"}
                  /\ pc' = "recv" => last_media_ts' = now
             ELSE /\ forced_calls' = forced_calls
                  /\ commit_calls' = commit_calls
                  /\ sent' = sent
                  /\ last_media_ts' = last_media_ts
                  /\ pc' = "recv"
       /\ (pc = "auto_resp" /\ pc' # pc) =>
             /\ pc' \in {"recv", "finally"}
             /\ pc' = "recv" => last_media_ts' = now
       /\ forced_calls' # forced_calls => pc = "check"
      ]_vars

\* The check ran 701 ms after the last media time and forced one call.
C2_Witness ==
    /\ pc = "recv"
    /\ State = "ACTIVE"
    /\ forced_calls = 1
    /\ now = 701
    /\ last_media_ts = 701

\* C3: once a stop frame has ended an active session, the session is CLOSED,
\* the client's close() has run once and the post-call processing has been
\* called once.
C3_StopClosesAndCallsHook ==
    (pc = "done" /\ cause = "stop" /\ oai # 0) =>
        /\ close_calls[oai] = 1
        /\ process_calls = 1

\* C4: no step moves the session state backward along IDLE, CONNECTING,
\* ACTIVE, CLOSING, CLOSED; once a start frame has set the session up no
\* step skips a state; and nothing of the session changes once it is CLOSED.
C4_StateMonotonic ==
    [][/\ Rank(StateOf(pc', oai')) >= Rank(State)
       /\ nclients > 0 => Rank(StateOf(pc', oai')) <= Rank(State) + 1
       /\ State = "CLOSED" =>
             UNCHANGED <<pc, oai, tel, sock, close_calls>>
      ]_vars

\* C5: at most one speech-service connection is live at any time, and none
\* is live once the endpoint has returned.
C5_OneLiveConnection ==
    /\ Cardinality({c \in Clients : Live(c)}) <= 1
    /\ pc = "done" => \A c \in Clients : ~Live(c)

\* C6: the counter changes only in a step of send_pcm16_24k or
\* commit_and_respond, and between the load and the store of `+=` nobody
\* else has written it.
C6_CounterAtomic ==
    [][/\ audio_buffer_size' # audio_buffer_size =>
             /\ pc \in {"send_write", "mark_resp", "auto_resp"}
             /\ pc' # pc
       /\ pc = "send_write" => audio_buffer_size[oai] = tmp
      ]_vars

\* C7: a dropped speech-service connection leads to teardown like any other
\* path: the program does not come to rest before the session is CLOSED and
\* the telephony socket closed too; and at CLOSED the telephony socket is
\* closed and every speech-service connection opened for the call has been
\* closed by exactly one close().
C7_TeardownConverges ==
    /\ (oai # 0 /\ sock[oai] = "failed" /\ Quiescent) =>
          /\ pc = "done"
          /\ tel = "disconnected"
    /\ pc = "done" =>
          /\ tel = "disconnected"
          /\ \A c \in 1..nclients : ~Live(c) /\ close_calls[c] = 1

\* C8: an ACTIVE session whose speech-service connection has failed or was
\* closed by the peer is never left waiting for a telephony frame: the
\* endpoint has a step of its own to take, toward CLOSING.
C8_SpeechFailureEndsCall ==
    (State = "ACTIVE" /\ sock[oai] = "failed") => ENABLED LoopStep

\* C9: once a speech-service connection of the call has failed or dropped,
\* no step opens another one.
C9_NoNewConnectionAfterFailure ==
    [][(\E c \in Clients : sock[c] = "failed") =>
             /\ nclients' = nclients
             /\ \A c \in Clients : sock'[c] = "connecting" => sock[c] = "connecting"
      ]_vars

\* C10: a frame that is not JSON, whose payload cannot be decoded or whose
\* event type is unknown leaves the receive loop running.
C10_BadFrameDropped ==
    [][(frames' = frames + 1 /\ last_frame' \in {"malformed", "bad_payload", "unknown"}) =>
             /\ pc' \notin {"finally", "done"}
             /\ cause' = cause
      ]_vars

\* C11: while the telephony socket is not connected no send is scheduled on
\* the event loop and none is attempted on the socket.
C11_NoSendWhenDisconnected ==
    [][/\ Len(loop_q') > Len(loop_q) => tel = "connected"
       /\ Len(loop_q') < Len(loop_q) => tel = "connected"
      ]_vars

\* C12: the telephony socket is written only by the event loop, running the
\* oldest send handed to it; the step of a speech thread that takes an audio
\* delta writes nothing to the socket and leaves the thread in its receive
\* loop, the send at most queued.
C12_HandOffOnly ==
    [][/\ out' # out =>
             /\ pc \in {"recv", "done"}
             /\ loop_q # <<>>
             /\ out' = Append(out, Head(loop_q))
             /\ loop_q' = Tail(loop_q)
             /\ UNCHANGED <<thr, deltas>>
       /\ deltas' # deltas =>
             /\ out' = out
             /\ thr' = thr
             /\ loop_q' \in {loop_q, Append(loop_q, deltas')}
      ]_vars

\* Two deltas were taken by the thread before the event loop ran either send.
C12_Witness ==
    /\ deltas = 2
    /\ loop_q = <<1, 2>>
    /\ out = <<>>

Increasing(q) == \A i, j \in 1..Len(q) : i < j => q[i] < q[j]

Count(q, e) == Cardinality({i \in 1..Len(q) : q[i] = e})

\* C13: the append events of a client carry the media frames in the order
\* they arrived, one frame each; the media events written to the telephony
\* socket, and the sends still queued behind them, carry the audio deltas in
\* the order they arrived, one delta each.
C13_ArrivalOrder ==
    /\ \A c \in Clients :
          /\ Increasing(appended[c])
          /\ Count(sent[c], "input_audio_buffer.append") = Len(appended[c])
          /\ \A i \in 1..Len(appended[c]) : appended[c][i] \in 1..frames
    /\ Increasing(out \o loop_q)
    /\ \A i \in 1..Len(out \o loop_q) : (out \o loop_q)[i] \in 1..deltas

\* Two frames were forwarded and two deltas written back.
C13_Witness ==
    /\ oai # 0
    /\ Len(appended[oai]) = 2
    /\ out = <<1, 2>>

\* C15: a forwarded media frame of n mu-law bytes makes a chunk of 6n bytes,
\* and the store that ends send_pcm16_24k leaves the counter exactly that
\* much above what it was; three 160-byte frames from 0 stay below the
\* threshold of commit_and_respond().
C15_CounterAddsSixN ==
    [][/\ (pc = "recv" /\ pc' = "send_write") =>
             \E n \in FrameSizes : chunk' = 6 * n
       /\ (pc = "send_write" /\ pc' # pc) =>
             audio_buffer_size'[oai] = audio_buffer_size[oai] + chunk
       /\ ~BufferReady(3 * upsample_8k_to_24k_len(pcmu8k_to_pcm16_8k_len(160)))
       /\ 3 * upsample_8k_to_24k_len(pcmu8k_to_pcm16_8k_len(160)) = 2880
      ]_vars

\* C19: an ACTIVE session that holds 4800 bytes or more and has seen no
\* media for more than 700 ms is not left waiting for a frame: the endpoint
\* has a step of its own to take.
C19_InactivityCheckPolls ==
    (/\ pc = "recv"
     /\ State = "ACTIVE"
     /\ sock[oai] = "open"
     /\ audio_buffer_size[oai] >= 4800
     /\ now - last_media_ts > 700) => ENABLED LoopStep

\* C20: on a connection whose ready signal is set, session.update is the
\* first event sent and the greeting's response.create the second.
C20_ConfigureThenGreet ==
    \A c \in Clients :
        connected[c] =>
            /\ Len(sent[c]) >= 2
            /\ sent[c][1] = "session.update"
            /\ sent[c][2] = "response.create"

InSeq(e, q) == \E i \in 1..Len(q) : q[i] = e

\* C14: nobody appends to a deque while a save iterates over it; every line
\* a call has appended is in the history of its thread_id; and the history
\* of a thread_id holds only lines of calls of that thread_id and lines that
\* were stored under it.
C14_HistorySerialized ==
    /\ \A k \in Calls :
          call_pc[k] = "save" => Len(deques[ref[k]]) = it_len[k]
    /\ \A k \in Calls : \A i \in 1..said[k] :
          InSeq(<<k, i>>, HistOf(thread_id[k][1]))
    /\ \A t \in Keys : \A i \in 1..Len(HistOf(t)) :
          IF HistOf(t)[i][1] = 0
          THEN InSeq(HistOf(t)[i], store[t])
          ELSE thread_id[HistOf(t)[i][1]] = <<t>>

\* C16: a start frame with user_id "42" gives thread_id "user_42" (and "7"
\* gives "user_7"), and thread_id is None exactly when user_id is missing or
\* empty.
C16_ThreadIdFromUserId ==
    \A k \in Calls :
        call_pc[k] # "idle" =>
            /\ user_id[k] = <<"42">> => thread_id[k] = <<"user_42">>
            /\ user_id[k] = <<"7">> => thread_id[k] = <<"user_7">>
            /\ thread_id[k] = None <=> user_id[k] \in {None, <<"">>}

\* One call has started with user_id "42", another with an empty user_id.
C16_Witness ==
    \E k, j \in Calls :
        /\ call_pc[k] # "idle"
        /\ user_id[k] = <<"42">>
        /\ thread_id[k] = <<"user_42">>
        /\ call_pc[j] # "idle"
        /\ user_id[j] = <<"">>
        /\ thread_id[j] = None

\* C17: downsample_24k_to_8k(upsample_8k_to_24k(x)) is x, for every buffer x
\* of whole samples; the upsampled buffer is three times as long.
C17_ResampleRoundTrip ==
    /\ codec_pc = "resampled" => codec_out = codec_in
    /\ (codec_pc = "in" /\ Len(codec_in) % 2 = 0) =>
          Len(upsample_8k_to_24k(codec_in)) = upsample_8k_to_24k_len(Len(codec_in))

\* A buffer of two different samples came back as it was.
C17_Witness ==
    /\ codec_pc = "resampled"
    /\ codec_in = <<1, 0, 255, 128>>
    /\ codec_out = codec_in

\* C18: encoding to mu-law and decoding again changes nothing on a buffer
\* that has been through it once.
C18_MuLawIdempotent ==
    codec_pc = "recoded" => codec_out2 = codec_out

\* A sample the first pass changed (-1 became -8) and the second kept.
C18_Witness ==
    /\ codec_pc = "recoded"
    /\ codec_in = <<255, 255>>
    /\ codec_out = <<248, 255>>
    /\ codec_out2 = codec_out

\* C21: connect() returns by its 5 s deadline, and the session is then
\* ACTIVE; it returns before the deadline only once the speech service has
\* sent an event (the session.created acknowledgment); and after a return at
\* the deadline, with the connection still being made, a media frame does not
\* end the call.
C21_ConnectWaitThenActive ==
    [][/\ pc = "connect_wait" => now' <= wait_deadline
       /\ (pc = "connect_wait" /\ pc' # pc) =>
             /\ StateOf(pc', oai') = "ACTIVE"
             /\ now' = wait_deadline \/ msgs > 0
       /\ (/\ frames' = frames + 1
           /\ last_frame' = "media"
           /\ oai # 0
           /\ ~connected[oai]
           /\ sock[oai] = "connecting") => pc' # "finally"
      ]_vars

\* C22: the step that takes a mark frame while a client exists makes one
\* commit_and_respond() call, which is not a forced one; without a client it
\* makes none; and no frame is taken while that call is between its two
\* sends.
C22_MarkCommitsAtOnce ==
    [][/\ (frames' = frames + 1 /\ last_frame' = "mark" /\ oai # 0) =>
             /\ commit_calls' = commit_calls + 1
             /\ forced_calls' = forced_calls
       /\ (frames' = frames + 1 /\ last_frame' = "mark" /\ oai = 0) =>
             commit_calls' = commit_calls
       /\ pc = "mark_resp" => frames' = frames
      ]_vars

\* A mark's call has sent its commit and not yet its response.create.
C22_Witness ==
    /\ pc = "mark_resp"
    /\ last_frame = "mark"
    /\ commit_calls = 1
    /\ forced_calls = 0
    /\ Last(sent[oai]) = "input_audio_buffer.commit"

\* C28: the step that takes a stop frame leaves the loop for `finally`
\* without making a call on the client; from then on the endpoint takes no
\* frame, makes no commit_and_respond() call, forced or not, and sends nothing:
\* an event is sent on a client's socket only by its own thread, in _on_open;
\* the counter is not reset by the endpoint; and the one call still made on
\* the client is close().
C28_NothingAfterStop ==
    [][/\ (frames' = frames + 1 /\ last_frame' = "stop") =>
             /\ pc' = "finally"
             /\ UNCHANGED <<sent, commit_calls, forced_calls, close_calls,
                            audio_buffer_size>>
       /\ cause = "stop" =>
             /\ UNCHANGED <<frames, commit_calls, forced_calls, appended>>
             /\ pc' \in {"finally", "done"}
             /\ \A c \in Clients :
                   sent'[c] # sent[c] =>
                       /\ thr[c] \in {"on_open", "greet"}
                       /\ thr'[c] # thr[c]
             /\ audio_buffer_size' # audio_buffer_size => msgs' = msgs + 1
             /\ close_calls' # close_calls =>
                   /\ pc = "finally"
                   /\ close_calls' = [close_calls EXCEPT ![oai] = @ + 1]
      ]_vars

\* A stop ended a call that held 4800 uncommitted bytes: they are still
\* counted, nothing was committed, and the client has been closed once.
C28_Witness ==
    /\ pc = "done"
    /\ cause = "stop"
    /\ oai # 0
    /\ audio_buffer_size[oai] = 4800
    /\ Count(sent[oai], "input_audio_buffer.commit") = 0
    /\ Last(sent[oai]) = "input_audio_buffer.append"
    /\ commit_calls = 0
    /\ close_calls[oai] = 1

\* What a frame handled without a socket leaves as it is.
NoSocketFrame ==
    UNCHANGED <<oai, nclients, now, wait_deadline, chunk, tmp, tel, cause,
                clientVars, forced_calls, process_calls, ticks, msgs, outVars,
                evVars>>

\* C27: while there is no client, or a client whose connect() has not run, a
\* media frame changes last_media_ts alone and a mark frame nothing (its
\* commit_and_respond() call, made if there is a client, returns at once);
\* both go on to the check, which sends nothing and returns to the loop;
\* and `finally` closes nothing.
C27_NoClientNoSocket ==
    [][(oai = 0 \/ ~ws[oai]) =>
          /\ (frames' = frames + 1 /\ last_frame' = "media") =>
                /\ pc' = "check"
                /\ last_media_ts' = now
                /\ commit_calls' = commit_calls
                /\ NoSocketFrame
          /\ (frames' = frames + 1 /\ last_frame' = "mark") =>
                /\ pc' = "check"
                /\ last_media_ts' = last_media_ts
                /\ commit_calls' = commit_calls + (IF oai # 0 THEN 1 ELSE 0)
                /\ NoSocketFrame
          /\ (pc = "check" /\ pc' # pc) =>
                /\ pc' = "recv"
                /\ UNCHANGED <<cause, clientVars>>
          /\ (pc = "finally" /\ pc' # pc) =>
                /\ pc' = "done"
                /\ UNCHANGED <<cause, sent, sock, thr, close_calls>>
      ]_vars

\* A client that was never connected took a media frame at time 701 and a
\* mark, then a stop: nothing was sent, nothing raised, nothing closed.
C27_Witness ==
    /\ pc = "done"
    /\ cause = "stop"
    /\ oai = 1
    /\ ~ws[oai]
    /\ frames = 3
    /\ last_media_ts = 701
    /\ commit_calls >= 1
    /\ sent[oai] = <<>>
    /\ sock[oai] = "none"
    /\ close_calls[oai] = 0

C23_FlushedAtClose ==
    \A k \in Calls :
        (call_pc[k] = "closed" /\ thread_id[k] # None) =>
            \A i \in 1..said[k] : InSeq(<<k, i>>, store[thread_id[k][1]])

\* C29: the store is searched at most once for a thread_id, and has been
\* exactly when THREAD_LOADED is set; once it is set it stays set, and a start
\* frame with that thread_id searches nothing and leaves THREAD_HISTORY and
\* every deque as they are.
C29_LoadOncePerThread ==
    [][\A t \in Keys :
          /\ searches'[t] <= 1
          /\ THREAD_LOADED'[t] <=> (searches'[t] = 1)
          /\ THREAD_LOADED[t] =>
                /\ THREAD_LOADED'[t]
                /\ searches'[t] = searches[t]
                /\ \A k \in Calls :
                      (call_pc[k] = "idle" /\ thread_id'[k] = <<t>>) =>
                          UNCHANGED <<THREAD_HISTORY, deques, nobjs>>
      ]_vars

\* Two calls of "user_42" have started, with a history stored before them:
\* one search was made, and the history holds the stored line and then the
\* line the first call appended.
C29_Witness ==
    /\ \A k \in Calls : call_pc[k] = "run" /\ thread_id[k] = <<"user_42">>
    /\ said = [k \in Calls |-> IF k = 1 THEN 1 ELSE 0]
    /\ searches["user_42"] = 1
    /\ THREAD_LOADED["user_42"]
    /\ HistOf("user_42") = << <<0, 1>>, <<1, 1>> >>

\* C26: no failed lookup of the start branch ends the session: the branch
\* always goes on to construct the speech client and to call connect() once,
\* and the loop is back at receive_text().  Each failed lookup falls back to
\* its own default: a MemoryStore() that raises gives the one-line default
\* instructions; a failed history load or memory fetch gives instructions
\* without that section; a failed agent-name, greeting or voice setting
\* gives "Betsy", the default template, "alloy".
Collaborators ==
    {"memory_store", "thread_history", "user_memories", "agent_name", "greeting",
     "openai_voice"}

C30_EndsWithChunk ==
    /\ gen_pc # "raised"
    /\ gen_pc = "done" => Len(yielded) >= 1
    /\ gen_pc = "done" /\ Strip(response_text) = "" =>
          yielded # <<>> /\ yielded[Len(yielded)] = "apology"

====
